---- MODULE Spec2Model ----
(***************************************************************************)
(* A model of the TGFF parser of src/src/lib.rs.  The input text is a      *)
(* sequence of characters (one-character strings); the parser is a cursor  *)
(* over it with a line counter and the Content it accumulates.  The skip   *)
(* and read primitives and the token readers are operators computed the    *)
(* way the code computes them; the grammar procedures are the actions.     *)
(***************************************************************************)
EXTENDS Integers, Sequences, FiniteSets, TLC

VARIABLES input, pos, line, content, pc, result, entry, name, id, graph, table,
          alt, first

vars == <<input, pos, line, content, pc, result, entry, name, id, graph, table,
          alt, first>>

(***************************************************************************)
(* Characters                                                              *)
(***************************************************************************)
Upper == {"A","B","C","D","E","F","G","H","I","J","K","L","M",
          "N","O","P","Q","R","S","T","U","V","W","X","Y","Z"}

Lower == {"a","b","c","d","e","f","g","h","i","j","k","l","m",
          "n","o","p","q","r","s","t","u","v","w","x","y","z"}

Digit == {"0","1","2","3","4","5","6","7","8","9"}

DigitVal == [c \in Digit |->
               CASE c = "0" -> 0 [] c = "1" -> 1 [] c = "2" -> 2 [] c = "3" -> 3
                 [] c = "4" -> 4 [] c = "5" -> 5 [] c = "6" -> 6 [] c = "7" -> 7
                 [] c = "8" -> 8 [] c = "9" -> 9]

Void == {" ", "\t", "\n"}

None == [some |-> FALSE]

Some(v) == [some |-> TRUE, val |-> v]

(***************************************************************************)
(* Evaluation helpers: Bind(x, F) is F(x) with x evaluated once; Try is    *)
(* the try! macro: go on with the value of an Ok step, return its Err.     *)
(***************************************************************************)
Bind(x, F(_)) == CHOOSE r \in {F(v) : v \in {x}} : TRUE

Try(step, F(_)) == Bind(step, LAMBDA r : IF r.ok THEN F(r) ELSE r)

(***************************************************************************)
(* The cursor: pos characters consumed, line the line counter.             *)
(***************************************************************************)
Cursor(p, l) == [pos |-> p, line |-> l]

\* Parser::peek: the next character, not consumed.
Peek(cur) ==
    Bind(cur.pos, LAMBDA p : IF p < Len(input) THEN Some(input[p + 1]) ELSE None)

\* A next that counts no newline.
NextCharSameLine(cur) ==
    Bind(cur, LAMBDA c : IF c.pos < Len(input) THEN Cursor(c.pos + 1, c.line) ELSE c)

\* Iterator::next for Parser: consume one character, count a newline.
NextChar(cur) ==
    Bind(cur, LAMBDA c :
        IF c.pos < Len(input)
        THEN IF input[c.pos + 1] = "\n"
             THEN Cursor(c.pos + 1, c.line + 1)
             ELSE Cursor(c.pos + 1, c.line)
        ELSE c)

(***************************************************************************)
(* The acceptance predicates handed to skip and read, as tagged records.   *)
(***************************************************************************)
AcceptVoid == [kind |-> "void"]

AcceptStr(expected) == [kind |-> "str", expected |-> expected]

AcceptComment == [kind |-> "comment"]

AcceptToken == [kind |-> "token"]

AcceptNatural == [kind |-> "natural"]

AcceptReal == [kind |-> "real"]

Accept(a, i, c) ==
    CASE a.kind = "void" -> c \in Void
      [] a.kind = "str" -> i < Len(a.expected) /\ c = a.expected[i + 1]
      [] a.kind = "comment" -> (i = 0 /\ c = "#") \/ (i > 0 /\ c = "-")
      [] a.kind = "token" ->
             \/ (i = 0 /\ c \in Upper \cup Lower)
             \/ (i > 0 /\ c \in Upper \cup Lower \cup {"_"} \cup Digit)
      [] a.kind = "natural" -> c \in Digit
      [] a.kind = "real" -> c \in {"+", "-", ".", "e", "E"} \cup Digit

\* The loop of skip and read: consume while the next character is accepted;
\* run is [cur, text], text the characters consumed so far.
RECURSIVE Consume(_, _)
Consume(a, run) ==
    Bind(run, LAMBDA s :
        Bind(Peek(s.cur), LAMBDA c :
            IF c.some /\ Accept(a, Len(s.text), c.val)
            THEN Consume(a, [cur |-> NextChar(s.cur), text |-> Append(s.text, c.val)])
            ELSE s))

\* Parser::skip: consume the maximal accepted run, return the count.
Skip(a, cur) ==
    Bind(Consume(a, [cur |-> cur, text |-> <<>>]), LAMBDA r :
        [cur |-> r.cur, count |-> Len(r.text)])

\* Parser::read: consume the maximal accepted run, return its text.
Read(a, cur) ==
    Bind(Consume(a, [cur |-> cur, text |-> <<>>]), LAMBDA r :
        [cur |-> r.cur, val |-> IF Len(r.text) = 0 THEN None ELSE Some(r.text)])

\* Parser::skip_void
SkipVoid(cur) == Skip(AcceptVoid, cur).cur

(***************************************************************************)
(* Results of the fallible steps: Ok(value) or Err(line, message), with    *)
(* the cursor the step leaves behind.                                      *)
(***************************************************************************)
Ok(cur, v) == [ok |-> TRUE, cur |-> cur, val |-> v]

\* raise!: the error carries the line counter at the moment of failure.
Raise(cur, message) ==
    Bind(cur, LAMBDA c :
        [ok |-> FALSE, cur |-> c, err |-> [line |-> c.line, message |-> message]])

\* format!("expected ..."): the message names the literal between backquotes,
\* which a string of this module cannot hold and writes as '.
MsgExpected(expected) ==
    CASE expected = <<"@">> -> "expected '@'"
      [] expected = <<"{">> -> "expected '{'"
      [] expected = <<"}">> -> "expected '}'"
      [] expected = <<"#">> -> "expected '#'"
      [] expected = <<"T","Y","P","E">> -> "expected 'TYPE'"
      [] expected = <<"F","R","O","M">> -> "expected 'FROM'"
      [] expected = <<"T","O">> -> "expected 'TO'"
      [] expected = <<"O","N">> -> "expected 'ON'"
      [] expected = <<"A","T">> -> "expected 'AT'"

\* Parser::skip_char
SkipChar(expected, cur) ==
    Bind(cur, LAMBDA c0 :
        Bind(NextChar(c0), LAMBDA after :
            IF Peek(c0) = Some(expected)
            THEN Ok(SkipVoid(after), TRUE)
            ELSE Raise(after, MsgExpected(<<expected>>))))

\* Parser::skip_str
SkipStr(expected, cur) ==
    Bind(Skip(AcceptStr(expected), cur), LAMBDA r :
        IF r.count # Len(expected)
        THEN Raise(r.cur, MsgExpected(expected))
        ELSE Ok(SkipVoid(r.cur), TRUE))

\* Parser::skip_comment
SkipComment(cur) ==
    Bind(Skip(AcceptComment, cur), LAMBDA r :
        IF r.count < 2
        THEN Raise(r.cur, "expected a comment line")
        ELSE Ok(SkipVoid(r.cur), TRUE))

(***************************************************************************)
(* Number conversions of the standard library, on the text read.           *)
(***************************************************************************)
\* The text without its leading zeros.
StripZeros(s) ==
    Bind(s, LAMBDA t :
        LET nonzero == {i \in 1..Len(t) : t[i] # "0"} IN
        IF nonzero = {} THEN <<>>
        ELSE SubSeq(t, CHOOSE i \in nonzero : \A j \in nonzero : i <= j, Len(t)))

\* The number a text of digits writes; acc is the number of the digits
\* before s.
RECURSIVE DecimalFrom(_, _)
DecimalFrom(acc, s) ==
    Bind(<<acc, s>>, LAMBDA p :
        IF Len(p[2]) = 0 THEN p[1]
        ELSE DecimalFrom(10 * p[1] + DigitVal[Head(p[2])], Tail(p[2])))

DecimalValue(s) == DecimalFrom(0, s)

\* The largest uint (64-bit), as decimal digits.
UintMaxDigits ==
    <<"1","8","4","4","6","7","4","4","0","7","3","7","0","9","5","5","1","6","1","5">>

\* s and t are digit strings of equal length: s > t as numbers.
DigitsGreater(s, t) ==
    \E i \in 1..Len(s) :
        /\ DigitVal[s[i]] > DigitVal[t[i]]
        /\ \A j \in 1..(i - 1) : s[j] = t[j]

Overflows(s) ==
    Bind(StripZeros(s), LAMBDA t :
        \/ Len(t) > Len(UintMaxDigits)
        \/ (Len(t) = Len(UintMaxDigits) /\ DigitsGreater(t, UintMaxDigits)))

\* std::num::from_str_radix::<uint>(text, 10): None on an empty text, on a
\* character that is no digit, and on a number that does not fit in uint.
FromStrRadix(text) ==
    Bind(text, LAMBDA t :
        IF Len(t) = 0 THEN None
        ELSE IF \E i \in 1..Len(t) : t[i] \notin Digit THEN None
        ELSE IF Overflows(t) THEN None
        ELSE Some(DecimalValue(StripZeros(t))))

\* The end (as a count of characters) of the run of digits that starts after
\* the first i characters of text.
DigitsEnd(text, i) ==
    CHOOSE j \in i..Len(text) :
        /\ \A k \in (i + 1)..j : text[k] \in Digit
        /\ (j = Len(text) \/ text[j + 1] \notin Digit)

\* A decimal m * 10^e, trailing zeros of m moved into e.
RECURSIVE Decimal(_, _)
Decimal(m, e) ==
    Bind(<<m, e>>, LAMBDA p :
        IF p[1] = 0 THEN [m |-> 0, e |-> 0]
        ELSE IF p[1] % 10 = 0 THEN Decimal(p[1] \div 10, p[2] + 1)
        ELSE [m |-> p[1], e |-> p[2]])

\* The exponent of a real: from_str_common::<int> with a sign, no fraction,
\* no exponent of its own.
ParseExponent(text) ==
    Bind(text, LAMBDA t :
        LET start == IF Len(t) > 0 /\ t[1] \in {"+", "-"} THEN 1 ELSE 0 IN
        Bind(SubSeq(t, start + 1, Len(t)), LAMBDA digits :
            IF Len(digits) = 0 THEN None
            ELSE IF \E i \in 1..Len(digits) : digits[i] \notin Digit THEN None
            ELSE Some(IF start = 1 /\ t[1] = "-"
                      THEN 0 - DecimalValue(StripZeros(digits))
                      ELSE DecimalValue(StripZeros(digits)))))

\* Where the parts of a real's text end: the sign, the integer part, the
\* fraction, and whether an exponent follows.
RealParts(t) ==
    LET len == Len(t)
        start == IF len > 0 /\ t[1] \in {"+", "-"} THEN 1 ELSE 0 IN
    Bind(DigitsEnd(t, start), LAMBDA intEnd :
        LET hasDot == intEnd < len /\ t[intEnd + 1] = "." IN
        Bind(IF hasDot THEN DigitsEnd(t, intEnd + 1) ELSE intEnd, LAMBDA fracEnd :
            [start |-> start,
             intEnd |-> intEnd,
             fracStart |-> IF hasDot THEN intEnd + 1 ELSE intEnd,
             fracEnd |-> fracEnd,
             expFound |-> fracEnd < len /\ t[fracEnd + 1] \in {"e", "E"}]))

\* strconv::from_str_common(text, 10, negative, fractional, no special
\* values, ExpDec, empty is not zero, no underscores) for f64.
ParseReal(text) ==
    Bind(text, LAMBDA t :
        IF Len(t) = 0 THEN None
        ELSE Bind(RealParts(t), LAMBDA p :
            IF p.fracEnd < Len(t) /\ ~p.expFound THEN None
            ELSE IF p.fracEnd = p.start THEN None
            ELSE Bind(IF p.expFound
                      THEN ParseExponent(SubSeq(t, p.fracEnd + 2, Len(t)))
                      ELSE Some(0), LAMBDA exponent :
                 IF ~exponent.some THEN None
                 ELSE Bind(DecimalValue(StripZeros(
                               SubSeq(t, p.start + 1, p.intEnd)
                               \o SubSeq(t, p.fracStart + 1, p.fracEnd))),
                           LAMBDA mantissa :
                      Some(Decimal(IF t[1] = "-" THEN 0 - mantissa ELSE mantissa,
                                   exponent.val - (p.fracEnd - p.fracStart)))))))

(***************************************************************************)
(* Token readers                                                           *)
(***************************************************************************)
\* Parser::read_token
ReadToken(cur) ==
    Bind(Read(AcceptToken, cur), LAMBDA r :
        [cur |-> SkipVoid(r.cur), val |-> r.val])

\* token.split('_').nth(1): the text between the first and the second `_`.
LastField(token) ==
    Bind(token, LAMBDA t :
        LET under == {i \in 1..Len(t) : t[i] = "_"} IN
        IF under = {} THEN None
        ELSE LET a == CHOOSE i \in under : \A j \in under : j <= i IN
             Some(SubSeq(t, a + 1, Len(t))))

SecondField(token) ==
    Bind(token, LAMBDA t :
        LET under == {i \in 1..Len(t) : t[i] = "_"} IN
        IF under = {} THEN None
        ELSE LET a == CHOOSE i \in under : \A j \in under : i <= j
                 later == {i \in under : i > a}
                 b == IF later = {} THEN Len(t) + 1
                      ELSE CHOOSE i \in later : \A j \in later : i <= j IN
             Some(SubSeq(t, a + 1, b - 1)))

\* Parser::read_id
ReadId(cur) ==
    Bind(ReadToken(cur), LAMBDA t :
        Bind(IF t.val.some THEN SecondField(t.val.val) ELSE None, LAMBDA field :
            [cur |-> t.cur,
             val |-> IF field.some THEN FromStrRadix(field.val) ELSE None]))

\* Parser::read_natural
ReadNatural(cur) ==
    Bind(Read(AcceptNatural, cur), LAMBDA r :
        [cur |-> SkipVoid(r.cur),
         val |-> IF r.val.some THEN FromStrRadix(r.val.val) ELSE None])

\* Parser::read_real
ReadReal(cur) ==
    Bind(Read(AcceptReal, cur), LAMBDA r :
        [cur |-> SkipVoid(r.cur),
         val |-> IF r.val.some THEN ParseReal(r.val.val) ELSE None])

\* Parser::get_token
GetToken(cur) ==
    Bind(ReadToken(cur), LAMBDA r :
        IF r.val.some THEN Ok(r.cur, r.val.val)
        ELSE Raise(r.cur, "expected a token"))

\* Parser::get_id
GetId(cur) ==
    Bind(ReadId(cur), LAMBDA r :
        IF r.val.some THEN Ok(r.cur, r.val.val)
        ELSE Raise(r.cur, "expected an id"))

\* Parser::get_natural
GetNatural(cur) ==
    Bind(ReadNatural(cur), LAMBDA r :
        IF r.val.some THEN Ok(r.cur, r.val.val)
        ELSE Raise(r.cur, "expected a natural number"))

\* Parser::get_real
GetReal(cur) ==
    Bind(ReadReal(cur), LAMBDA r :
        IF r.val.some THEN Ok(r.cur, r.val.val)
        ELSE Raise(r.cur, "expected a real number"))

(***************************************************************************)
(* Content and what it holds (mod content)                                 *)
(***************************************************************************)
EmptyMap == [k \in {} |-> 0]

\* HashMap::insert: a later value for the same key replaces the earlier one.
Insert(map, k, v) == [x \in (DOMAIN map) \cup {k} |-> IF x = k THEN v ELSE map[x]]

NewContent == [attributes |-> EmptyMap, graphs |-> <<>>, tables |-> <<>>]

NewGraph(n, i) ==
    [name |-> n, id |-> i, attributes |-> EmptyMap,
     tasks |-> <<>>, arcs |-> <<>>, deadlines |-> <<>>]

NewTask(i, k) == [id |-> i, kind |-> k]

NewArc(i, f, t, k) == [id |-> i, from |-> f, to |-> t, kind |-> k]

NewDeadline(i, o, a) == [id |-> i, on |-> o, at |-> a]

NewTable(n, i) == [name |-> n, id |-> i, attributes |-> EmptyMap, columns |-> <<>>]

NewColumn(n) == [name |-> n, data |-> <<>>]

(***************************************************************************)
(* Keywords                                                                *)
(***************************************************************************)
TASK == <<"T","A","S","K">>

ARC == <<"A","R","C">>

HARD_DEADLINE == <<"H","A","R","D","_","D","E","A","D","L","I","N","E">>

TYPE == <<"T","Y","P","E">>

FROM == <<"F","R","O","M">>

TO == <<"T","O">>

ON == <<"O","N">>

AT == <<"A","T">>

(***************************************************************************)
(* The statements of a graph body: process_graph, one loop iteration.      *)
(***************************************************************************)
\* The "TASK" arm.
GraphTask(cur, g) ==
    Try(GetId(cur), LAMBDA i :
    Try(SkipStr(TYPE, i.cur), LAMBDA s :
    Try(GetNatural(s.cur), LAMBDA k :
    Ok(k.cur, [g EXCEPT !.tasks = Append(@, NewTask(i.val, k.val))]))))

\* An "ARC" arm that takes the source for the destination.
GraphArcSwapped(cur, g) ==
    Try(GetId(cur), LAMBDA i :
    Try(SkipStr(FROM, i.cur), LAMBDA s1 :
    Try(GetId(s1.cur), LAMBDA f :
    Try(SkipStr(TO, f.cur), LAMBDA s2 :
    Try(GetId(s2.cur), LAMBDA t :
    Try(SkipStr(TYPE, t.cur), LAMBDA s3 :
    Try(GetNatural(s3.cur), LAMBDA k :
    Ok(k.cur, [g EXCEPT !.arcs = Append(@, NewArc(i.val, t.val, f.val, k.val))]))))))))

\* The "ARC" arm.
GraphArc(cur, g) ==
    Try(GetId(cur), LAMBDA i :
    Try(SkipStr(FROM, i.cur), LAMBDA s1 :
    Try(GetId(s1.cur), LAMBDA f :
    Try(SkipStr(TO, f.cur), LAMBDA s2 :
    Try(GetId(s2.cur), LAMBDA t :
    Try(SkipStr(TYPE, t.cur), LAMBDA s3 :
    Try(GetNatural(s3.cur), LAMBDA k :
    Ok(k.cur, [g EXCEPT !.arcs = Append(@, NewArc(i.val, f.val, t.val, k.val))]))))))))

\* The "HARD_DEADLINE" arm.
GraphDeadline(cur, g) ==
    Try(GetId(cur), LAMBDA i :
    Try(SkipStr(ON, i.cur), LAMBDA s1 :
    Try(GetId(s1.cur), LAMBDA o :
    Try(SkipStr(AT, o.cur), LAMBDA s2 :
    Try(GetNatural(s2.cur), LAMBDA a :
    Ok(a.cur, [g EXCEPT !.deadlines = Append(@, NewDeadline(i.val, o.val, a.val))]))))))

\* The arm of any other token: an attribute of the graph.
GraphAttribute(token, cur, g) ==
    Try(GetNatural(cur), LAMBDA v :
    Ok(v.cur, [g EXCEPT !.attributes = Insert(@, token, v.val)]))

\* The match on the token read.
GraphStatement(token, cur, g) ==
    Bind(token, LAMBDA t :
        CASE t = TASK -> GraphTask(cur, g)
          [] t = ARC -> GraphArc(cur, g)
          [] t = HARD_DEADLINE -> GraphDeadline(cur, g)
          [] OTHER -> GraphAttribute(t, cur, g))

(***************************************************************************)
(* The parts of a table body: process_table.                               *)
(***************************************************************************)
\* loop { match read_token() { Some(token) => push, None => break } }
RECURSIVE ReadTokens(_, _)
ReadTokens(cur, tokens) ==
    Bind(<<ReadToken(cur), tokens>>, LAMBDA p :
        IF p[1].val.some THEN ReadTokens(p[1].cur, Append(p[2], p[1].val.val))
        ELSE [cur |-> p[1].cur, val |-> p[2]])

\* A header whose repeated name keeps its first value.
RECURSIVE HeaderRealsKeepsFirst(_, _, _)
HeaderRealsKeepsFirst(names, cur, attributes) ==
    Bind(<<names, attributes>>, LAMBDA p :
        IF Len(p[1]) = 0 THEN Ok(cur, p[2])
        ELSE Try(GetReal(cur), LAMBDA v :
             HeaderRealsKeepsFirst(Tail(p[1]), v.cur,
                 IF Head(p[1]) \in DOMAIN p[2] THEN p[2]
                 ELSE Insert(p[2], Head(p[1]), v.val))))

\* for name in names { attributes.insert(name, try!(get_real())) }
RECURSIVE HeaderReals(_, _, _)
HeaderReals(names, cur, attributes) ==
    Bind(<<names, attributes>>, LAMBDA p :
        IF Len(p[1]) = 0 THEN Ok(cur, p[2])
        ELSE Try(GetReal(cur), LAMBDA v :
             HeaderReals(Tail(p[1]), v.cur, Insert(p[2], Head(p[1]), v.val))))

\* The columns a sequence of names opens, in the order of the names.
Columns(names) == Bind(names, LAMBDA ns : [j \in 1..Len(ns) |-> NewColumn(ns[j])])

\* process_table up to the rows: the header attributes, the comment line and
\* the column names.
TableHeader(cur, t) ==
    Try(SkipChar("#", cur), LAMBDA h1 :
    Bind(ReadTokens(h1.cur, <<>>), LAMBDA names :
    Try(HeaderReals(names.val, names.cur, t.attributes), LAMBDA attrs :
    Try(SkipComment(attrs.cur), LAMBDA c :
    Try(SkipChar("#", c.cur), LAMBDA h2 :
    Bind(ReadTokens(h2.cur, <<>>), LAMBDA cols :
    Ok(cols.cur, [t EXCEPT !.attributes = attrs.val,
                           !.columns = Columns(cols.val)])))))))

\* A row that may end early, at `}` or at the end of the input.
RECURSIVE TableRowShort(_, _, _)
TableRowShort(i, cur, t) ==
    Bind(<<i, t>>, LAMBDA p :
        IF p[1] > Len(p[2].columns) \/ (p[1] > 1 /\ Peek(cur) \in {Some("}"), None})
        THEN Ok(cur, p[2])
        ELSE Try(GetReal(cur), LAMBDA v :
             TableRowShort(p[1] + 1, v.cur,
                           [p[2] EXCEPT !.columns[p[1]].data = Append(@, v.val)])))

\* for i in range(0, cols) { columns[i].data.push(try!(get_real())) },
\* from column i (1-based here) on.
RECURSIVE TableRow(_, _, _)
TableRow(i, cur, t) ==
    Bind(<<i, t>>, LAMBDA p :
        IF p[1] > Len(p[2].columns) THEN Ok(cur, p[2])
        ELSE Try(GetReal(cur), LAMBDA v :
             TableRow(p[1] + 1, v.cur,
                      [p[2] EXCEPT !.columns[p[1]].data = Append(@, v.val)])))

(***************************************************************************)
(* The parser as a state machine.  pc is the procedure the parser is in;   *)
(* entry is the procedure that was called on the new parser (process, or   *)
(* one of the procedures the unit tests call directly); name, id, graph    *)
(* and table are the arguments and locals of the block being parsed.       *)
(***************************************************************************)
NoResult == [kind |-> "none"]

OkResult(v) == [kind |-> "ok", val |-> v]

ErrResult(e) == [kind |-> "err", line |-> e.line, message |-> e.message]

NoName == <<>>

NoGraph == NewGraph(NoName, 0)

NoTable == NewTable(NoName, 0)

Cur == Cursor(pos, line)

\* Parser::new, then the call of `called`.
Start(text, called) ==
    /\ input = text
    /\ pos = 0
    /\ line = 1
    /\ content = NewContent
    /\ pc = called
    /\ entry = called
    /\ result = NoResult
    /\ name = NoName
    /\ id = 0
    /\ graph = NoGraph
    /\ table = NoTable

\* The cursor moves to cur.
MoveTo(cur) == pos' = cur.pos /\ line' = cur.line

\* A failure that keeps the graph read so far.
FailsKeepingGraph(r) ==
    /\ MoveTo(r.cur)
    /\ pc' = "done"
    /\ result' = ErrResult(r.err)
    /\ name' = NoName /\ id' = 0 /\ graph' = NoGraph /\ table' = NoTable
    /\ content' = [content EXCEPT !.graphs = Append(@, graph)]

\* try! on a failed step r: the error is returned to the caller of the entry
\* procedure, the locals are dropped, Content is left as it is.
Fails(r) ==
    /\ MoveTo(r.cur)
    /\ pc' = "done"
    /\ result' = ErrResult(r.err)
    /\ name' = NoName /\ id' = 0 /\ graph' = NoGraph /\ table' = NoTable
    /\ UNCHANGED content

\* The procedure `from` returns Ok(()): where the parser goes on, and with
\* what result.
ReturnTo(from) ==
    CASE from \in {"process_graph", "process_table"} ->
             IF entry = from THEN "done" ELSE "block_end"
      [] from = "process_block" ->
             IF entry \in {"process_block", "process_at"} THEN "done" ELSE "process"
      [] from = "process_at" ->
             IF entry = "process_at" THEN "done" ELSE "process"

Returns(from) ==
    /\ pc' = ReturnTo(from)
    /\ result' = IF ReturnTo(from) = "done" THEN OkResult(TRUE) ELSE NoResult

\* Parser::process, one iteration of its loop.
Process ==
    /\ pc = "process"
    /\ \E c \in {Peek(Cur)} :
       IF c.some /\ c.val = "@"
       THEN /\ pc' = "process_at"
            /\ UNCHANGED <<pos, line, result>>
       ELSE IF c.some
       THEN /\ pc' = "done"
            /\ result' = ErrResult(Raise(Cur, "found an unknown statement").err)
            /\ UNCHANGED <<pos, line>>
       ELSE /\ pc' = "done"
            /\ result' = OkResult(TRUE)
            /\ UNCHANGED <<pos, line>>
    /\ UNCHANGED <<input, content, entry, name, id, graph, table, alt, first>>

\* The head of a statement: `@`, a name and a number.
AtHead(cur) ==
    Try(SkipChar("@", cur), LAMBDA a :
    Try(GetToken(a.cur), LAMBDA n :
    Try(GetNatural(n.cur), LAMBDA v :
    Ok(v.cur, [name |-> n.val, number |-> v.val]))))

\* Parser::process_at, up to the call of process_block.
ProcessAt ==
    /\ pc = "process_at"
    /\ \E r \in {AtHead(Cur)} :
       IF ~r.ok THEN Fails(r)
       ELSE IF Peek(r.cur) = Some("{")
       THEN /\ MoveTo(r.cur)
            /\ pc' = "process_block"
            /\ name' = r.val.name
            /\ id' = r.val.number
            /\ UNCHANGED <<content, result, graph, table>>
       ELSE /\ MoveTo(r.cur)
            /\ content' = [content EXCEPT
                               !.attributes = Insert(@, r.val.name, r.val.number)]
            /\ Returns("process_at")
            /\ UNCHANGED <<name, id, graph, table>>
    /\ UNCHANGED <<input, entry, alt, first>>

\* A process_block that takes every body for a graph.
ProcessBlockAsGraph ==
    /\ pc = "process_block"
    /\ \E b \in {SkipChar("{", Cur)} :
       IF ~b.ok THEN Fails(b)
       ELSE /\ MoveTo(b.cur)
            /\ pc' = "process_graph"
            /\ graph' = NewGraph(name, id)
            /\ UNCHANGED <<content, result, name, id, table>>
    /\ UNCHANGED <<input, entry, alt, first>>

\* Parser::process_block, up to the call of process_table or process_graph.
ProcessBlock ==
    /\ pc = "process_block"
    /\ \E b \in {SkipChar("{", Cur)} :
       IF ~b.ok THEN Fails(b)
       ELSE IF Peek(b.cur) = Some("#")
       THEN /\ MoveTo(b.cur)
            /\ pc' = "process_table"
            /\ table' = NewTable(name, id)
            /\ UNCHANGED <<content, result, name, id, graph>>
       ELSE /\ MoveTo(b.cur)
            /\ pc' = "process_graph"
            /\ graph' = NewGraph(name, id)
            /\ UNCHANGED <<content, result, name, id, table>>
    /\ UNCHANGED <<input, entry, alt, first>>

\* Parser::process_graph, one iteration of its loop; when no token is left,
\* the graph is pushed and the procedure returns.
ProcessGraph ==
    /\ pc = "process_graph"
    /\ \E t \in {ReadToken(Cur)} :
       IF t.val.some
       THEN \E r \in {GraphStatement(t.val.val, t.cur, graph)} :
            IF ~r.ok THEN Fails(r)
            ELSE /\ MoveTo(r.cur)
                 /\ graph' = r.val
                 /\ UNCHANGED <<pc, result, content, name, id, table>>
       ELSE /\ MoveTo(t.cur)
            /\ content' = [content EXCEPT !.graphs = Append(@, graph)]
            /\ Returns("process_graph")
            /\ graph' = NoGraph
            /\ UNCHANGED <<name, id, table>>
    /\ UNCHANGED <<input, entry, alt, first>>

\* Parser::process_table, up to its loop over the rows.
ProcessTable ==
    /\ pc = "process_table"
    /\ \E h \in {TableHeader(Cur, table)} :
       IF ~h.ok THEN Fails(h)
       ELSE /\ MoveTo(h.cur)
            /\ pc' = "table_rows"
            /\ table' = h.val
            /\ UNCHANGED <<content, result, name, id, graph>>
    /\ UNCHANGED <<input, entry, alt, first>>

\* Parser::process_table, one iteration of its loop over the rows; at `}` or
\* the end of the input the table is pushed and the procedure returns.
TableRows ==
    /\ pc = "table_rows"
    /\ IF Peek(Cur) \in {Some("}"), None}
       THEN /\ content' = [content EXCEPT !.tables = Append(@, table)]
            /\ Returns("process_table")
            /\ table' = NoTable
            /\ UNCHANGED <<pos, line, name, id, graph>>
       ELSE \E r \in {TableRow(1, Cur, table)} :
            IF ~r.ok THEN Fails(r)
            ELSE /\ MoveTo(r.cur)
                 /\ table' = r.val
                 /\ UNCHANGED <<pc, result, content, name, id, graph>>
    /\ UNCHANGED <<input, entry, alt, first>>

\* A process_block that asks for no closing brace.
BlockEndOptional ==
    /\ pc = "block_end"
    /\ \E b \in {SkipChar("}", Cur)} :
       /\ MoveTo(b.cur)
       /\ Returns("process_block")
       /\ name' = NoName /\ id' = 0
       /\ UNCHANGED <<content, graph, table>>
    /\ UNCHANGED <<input, entry, alt, first>>

\* Parser::process_block, after the body: the closing brace.
BlockEnd ==
    /\ pc = "block_end"
    /\ \E b \in {SkipChar("}", Cur)} :
       IF ~b.ok THEN Fails(b)
       ELSE /\ MoveTo(b.cur)
            /\ Returns("process_block")
            /\ name' = NoName /\ id' = 0
            /\ UNCHANGED <<content, graph, table>>
    /\ UNCHANGED <<input, entry, alt, first>>

(***************************************************************************)
(* Input texts: concatenations of pieces of TGFF text.                     *)
(***************************************************************************)
RECURSIVE Flatten(_)
Flatten(pieces) ==
    IF Len(pieces) = 0 THEN <<>> ELSE Head(pieces) \o Flatten(Tail(pieces))

\* All sequences of at most n elements of S.
SeqsUpTo(S, n) == UNION {[1..k -> S] : k \in 0..n}

MaxPieces == 5

Pieces ==
    { <<"@","a"," ","1","\n">>,
      <<"@","g"," ","0","2"," ","{","\n"," ">>,
      <<"}","\n">>,
      <<"T","A","S","K"," ","t","_","1"," ","T","Y","P","E"," ","2","\n">>,
      <<"#","\n","#","-","-","\n","#"," ">>,
      <<"c"," ">>,
      <<"1"," ">> }

Texts == {Flatten(ps) : ps \in SeqsUpTo(Pieces, MaxPieces)}

\* Graph bodies, for process_graph.
MaxStatements == 3

Statements ==
    { <<"T","A","S","K"," ","t","0","_","1"," ","T","Y","P","E"," ","2","\n">>,
      <<"T","A","S","K"," ","t","0","_","1","2","_","7","\t","T","Y","P","E"," ","0","2"," ">>,
      <<"A","R","C"," ","a","0","_","4","2"," ","\t","F","R","O","M"," ","t","0","_","0"," "," ","T","O"," "," ","t","0","_","1"," ","T","Y","P","E"," ","3","5","\n">>,
      <<"H","A","R","D","_","D","E","A","D","L","I","N","E"," ","d","0","_","9"," ","O","N"," ","t","0","_","1","2"," ","A","T"," ","1","0","0","0","\n">>,
      <<"P","E","R","I","O","D"," ","3","0","0","\n">>,
      <<"T","Y","P","E"," ","4"," ">>,
      <<"T","A","S","K"," ","t","0"," ","T","Y","P","E"," ","1","\n">>,
      <<"A","R","C"," ","a","0","_","1"," ","F","R","O","M"," ","t","0","_","0"," ","T","O"," ">> }

GraphEnds == {<<>>, <<"}">>}

GraphTexts ==
    {Flatten(ss) \o e : ss \in SeqsUpTo(Statements, MaxStatements), e \in GraphEnds}

\* Table bodies, for process_table: the header names and their values, the
\* comment line, the column names, the values and the end of the block.
MaxHeader == 2

MaxColumns == 2

MaxValues == 4

HeaderPairs ==
    { <<<<"f"," ">>, <<"1","\n">>>>,
      <<<<"f"," ">>, <<"2",".","5","0"," ">>>>,
      <<<<"g"," ">>, <<"-","3","e","1","\n">>>> }

\* The column names of a table: the head of one of two lines of names, in
\* which a name comes more than once.
ColumnNames ==
    { << <<"c"," ">>, <<"d","\n">>, <<"c"," ">>, <<"d"," ">> >>,
      << <<"d"," ">>, <<"d","\n">>, <<"c"," ">>, <<"c","\n">> >> }

ColumnLists == {SubSeq(l, 1, n) : l \in ColumnNames, n \in 0..MaxColumns}

Values ==
    { <<"1"," ">>,
      <<"-","2",".","5","e","1","\n">> }

TableEnds == {<<>>, <<"}">>}

TableText(hs, cs, vs, e) ==
    <<"#", " ">> \o Flatten([i \in 1..Len(hs) |-> hs[i][1]])
                \o Flatten([i \in 1..Len(hs) |-> hs[i][2]])
                \o <<"#", "-", "-", "\n", "#", " ">>
                \o Flatten(cs) \o Flatten(vs) \o e

TableTexts ==
    {TableText(hs, cs, vs, e) : hs \in SeqsUpTo(HeaderPairs, MaxHeader),
                                cs \in ColumnLists,
                                vs \in SeqsUpTo(Values, MaxValues),
                                e \in TableEnds}

\* Identifiers and what may stand around them, for get_id; and identifiers
\* whose number is too long for a uint.
MaxIdLen == 5

IdChars == {"t", "_", "1", "9", " ", "\n"}

LongIds ==
    { <<"t","_","1","8","4","4","6","7","4","4","0","7","3","7","0","9","5","5","1","6","1","6">>,
      <<"t","0","_","9","9","9","9","9","9","9","9","9","9","9","9","9","9","9","9","9","9","9","9","_","1"," ">>,
      <<"t","_","0","0","0","0","0","0","0","0","0","0","0","0","0","0","0","0","0","0","0","1","2">> }

IdTexts == SeqsUpTo(IdChars, MaxIdLen) \cup LongIds

\* The comparison of two parses is not part of a single parse.
NoCompare == alt = <<>> /\ first = NoResult

Init ==
    /\ \E text \in Texts : Start(text, "process")
    /\ NoCompare

Next ==
    \/ Process
    \/ ProcessAt
    \/ ProcessBlock
    \/ ProcessGraph
    \/ ProcessTable
    \/ TableRows
    \/ BlockEnd

Spec == Init /\ [][Next]_vars

\* process_graph called on a new parser, as the unit tests do.
InitGraph ==
    /\ \E text \in GraphTexts : Start(text, "process_graph")
    /\ NoCompare

NextGraph == ProcessGraph

SpecGraph == InitGraph /\ [][NextGraph]_vars

\* process_table called on a new parser.
InitTable ==
    /\ \E text \in TableTexts : Start(text, "process_table")
    /\ NoCompare

NextTable == ProcessTable \/ TableRows

SpecTable == InitTable /\ [][NextTable]_vars

\* get_id called on a new parser.
CallGetId ==
    /\ pc = "get_id"
    /\ \E r \in {GetId(Cur)} :
       /\ MoveTo(r.cur)
       /\ pc' = "done"
       /\ result' = IF r.ok THEN OkResult(r.val) ELSE ErrResult(r.err)
    /\ UNCHANGED <<input, content, entry, name, id, graph, table, alt, first>>

InitId ==
    /\ \E text \in IdTexts : Start(text, "get_id")
    /\ NoCompare

NextId == CallGetId

SpecId == InitId /\ [][NextId]_vars

(***************************************************************************)
(* Properties of process, under Spec.                                      *)
(***************************************************************************)
\* The number of newline characters in s.
Newlines(s) == Cardinality({i \in 1..Len(s) : s[i] = "\n"})

\* The procedures whose body is a loop.
LoopHeads == {"process", "process_graph", "table_rows"}

\* C1: every iteration of a loop of the parser consumes at least one character
\* or leaves the loop, so that process terminates on every input: in no
\* state is the parser at a loop whose next iteration changes neither the
\* cursor nor the place in the program.
C1_EveryIterationProgresses ==
    pc \in LoopHeads => ~ENABLED (Next /\ pos' = pos /\ pc' = pc)

\* C9: the line counter is 1 plus the number of newlines consumed, it never
\* decreases, and an error carries the counter at the moment of failure: a
\* positive line no greater than 1 plus the number of newlines of the input.
C9_LineCounter ==
    /\ [](/\ line = 1 + Newlines(SubSeq(input, 1, pos))
          /\ result.kind = "err" =>
                 /\ result.line = line
                 /\ result.line >= 1
                 /\ result.line <= 1 + Newlines(input))
    /\ [][line' >= line /\ pos' >= pos]_vars

\* An error raised after a newline was consumed.
C9_Witness == result.kind = "err" /\ result.line > 1 /\ pos < Len(input)

\* The words of s: its maximal runs of characters that are no whitespace.
WordStarts(s) == {i \in 1..Len(s) : s[i] \notin Void /\ (i = 1 \/ s[i - 1] \in Void)}

WordEnd(s, i) ==
    CHOOSE j \in i..Len(s) :
        /\ \A k \in i..j : s[k] \notin Void
        /\ (j = Len(s) \/ s[j + 1] \in Void)

Words(s) ==
    LET starts == WordStarts(s) IN
    [n \in 1..Cardinality(starts) |->
        LET i == CHOOSE i \in starts : Cardinality({j \in starts : j < i}) = n - 1 IN
        SubSeq(s, i, WordEnd(s, i))]

\* The number of characters consumed once the whitespace after the first p
\* characters of the input is skipped.
AfterVoid(p) ==
    CHOOSE q \in p..Len(input) :
        /\ \A i \in (p + 1)..q : input[i] \in Void
        /\ (q = Len(input) \/ input[q + 1] \notin Void)

\* The character after the first p characters of the input is c.
CharAt(p, c) == p < Len(input) /\ input[p + 1] = c

BodyPcs == {"process_graph", "process_table", "table_rows"}

\* A statement `@NAME number` not followed by `{` adds NAME -> number to the
\* global attributes and nothing else.
C4_Attribute ==
    LET w == Words(SubSeq(input, pos + 2, pos')) IN
    /\ pc' = "process"
    /\ Len(w) = 2
    /\ content' = [content EXCEPT !.attributes = Insert(@, w[1], DecimalValue(w[2]))]

\* The kind of a block is that of the first character after `{` and the
\* whitespace after it.
C4_Kind ==
    /\ content' = content
    /\ pc' = IF CharAt(AfterVoid(pos + 1), "#") THEN "process_table" ELSE "process_graph"

\* A body stays the kind it is, and ends by appending one graph, or one
\* table, and nothing else.
C4_Body ==
    /\ pc = "process_graph" =>
           /\ pc' \in {"process_graph", "block_end", "done"}
           /\ pc' = "block_end" =>
                  content' = [content EXCEPT !.graphs = Append(@, graph)]
    /\ pc \in {"process_table", "table_rows"} =>
           /\ pc' \in {"table_rows", "block_end", "done"}
           /\ pc' = "block_end" =>
                  content' = [content EXCEPT !.tables = Append(@, table)]
    /\ pc' # "block_end" => content' = content

\* C4: every statement `@NAME number ...` parsed changes one container of
\* Content, chosen by the character after the number and, for a block, by
\* the first character after `{`; after a successful parse there are as
\* many graphs and tables as the input has blocks.
C4_OneContainerPerStatement ==
    /\ [][/\ (pc = "process_at" /\ result'.kind # "err") =>
                 IF CharAt(pos', "{")
                 THEN pc' = "process_block" /\ content' = content
                 ELSE C4_Attribute
          /\ (pc = "process_block" /\ result'.kind # "err") => C4_Kind
          /\ pc \in BodyPcs => C4_Body
          /\ pc \in {"process", "block_end"} => content' = content]_vars
    /\ [](result.kind = "ok" =>
             Len(content.graphs) + Len(content.tables)
                 = Cardinality({i \in 1..Len(input) : input[i] = "{"}))

\* A successful parse of a graph block and a table block.
C4_Witness ==
    /\ result.kind = "ok"
    /\ Len(content.graphs) >= 1
    /\ Len(content.tables) >= 1

\* What process_block does after the body, with the message it raises when
\* the closing brace is missing.
C7_AfterBody(message) ==
    pc = "block_end" =>
        IF CharAt(pos, "}")
        THEN /\ result'.kind # "err"
             /\ pos' = AfterVoid(pos + 1)
             /\ pc' = "process"
             /\ content' = content
        ELSE /\ result' = [kind |-> "err", line |-> line', message |-> message]
             /\ pc' = "done"

\* C7, as claimed: after the body of a block, a missing `}` fails with the
\* message "cannot find the end of a block"; a `}` is consumed with the
\* whitespace after it and the block succeeds.
C7_CannotFindTheEnd == [][C7_AfterBody("cannot find the end of a block")]_vars

\* C7, amended: after the body of a block, a missing `}` fails with the
\* message of skip_char, "expected `}`"; a `}` is consumed with the
\* whitespace after it and the block succeeds.
C7_ExpectedBrace == [][C7_AfterBody("expected '}'")]_vars

\* A block whose closing brace is missing.
C7_Witness == result.kind = "err" /\ result.message = "expected '}'"

\* C10: a failure inside a graph or table body appends nothing: Content is
\* left as it was, the error carries the line of the failure and ends the
\* parse, and no step follows a result.
C10_FailFast ==
    [][/\ result.kind = "none"
       /\ result'.kind = "err" =>
              /\ content' = content
              /\ pc' = "done"
              /\ result'.line = line'
       /\ pc \in BodyPcs =>
              \/ content' = content /\ pc' \in BodyPcs \cup {"done"}
              \/ result'.kind = "none" /\ pc' = "block_end"]_vars

\* A failure inside a body (after a `{` that no `}` closes), after a
\* statement filled Content.
C10_Witness ==
    /\ result.kind = "err"
    /\ result.message \in {"expected a natural number", "expected a real number"}
    /\ content # NewContent
    /\ \E i \in 1..pos : input[i] = "{" /\ \A j \in i..pos : input[j] # "}"

(***************************************************************************)
(* Properties of process_table, under SpecTable.  The parts of the table   *)
(* body are read off the input text, word by word.                         *)
(***************************************************************************)
Hashes == {i \in 1..Len(input) : input[i] = "#"}

\* The `#` of the header, of the comment line and of the column names.
HeaderHash == CHOOSE i \in Hashes : \A j \in Hashes : i <= j

ColumnHash == CHOOSE i \in Hashes : \A j \in Hashes : j <= i

CommentHash == CHOOSE i \in Hashes \ {HeaderHash, ColumnHash} : TRUE

\* The words w without a closing brace at their end.
WithoutBrace(w) ==
    IF Len(w) > 0 /\ w[Len(w)] = <<"}">> THEN SubSeq(w, 1, Len(w) - 1) ELSE w

\* How many words at the head of w are names (start with a letter).
Names(w) ==
    CHOOSE k \in 0..Len(w) :
        /\ \A i \in 1..k : w[i][1] \in Upper \cup Lower
        /\ (k = Len(w) \/ w[k + 1][1] \notin Upper \cup Lower)

\* The parts of the table body the input text writes: the names and the
\* values of the header, the names of the columns and the values.
TableParts ==
    Bind(Words(SubSeq(input, HeaderHash + 1, CommentHash - 1)), LAMBDA hw :
    Bind(WithoutBrace(Words(SubSeq(input, ColumnHash + 1, Len(input)))), LAMBDA bw :
        [headerNames |-> SubSeq(hw, 1, Names(hw)),
         headerValues |-> SubSeq(hw, Names(hw) + 1, Len(hw)),
         columns |-> SubSeq(bw, 1, Names(bw)),
         data |-> SubSeq(bw, Names(bw) + 1, Len(bw))]))

\* The word writes a real number.
IsReal(w) == ParseReal(w).some

RealOf(w) == ParseReal(w).val

\* The table t has the columns named in the text, in their order, and the
\* k-th value of the text (from 0) is in column k mod n: column j holds the
\* values at j, j + n, j + 2n, ...; all columns have m / n values.
C2_Columns(t, p) ==
    LET n == Len(p.columns)
        m == Len(p.data) IN
    /\ Len(t.columns) = n
    /\ m % n = 0
    /\ \A j \in 1..n :
           /\ t.columns[j].name = p.columns[j]
           /\ t.columns[j].data =
                  [r \in 1..(m \div n) |-> RealOf(p.data[(r - 1) * n + j])]

\* C2, as claimed: a table parsed with n >= 1 columns has its values dealt to
\* the columns in turn, and its header attributes map the i-th header name to
\* the i-th header real.
C2_HeaderByPosition ==
    (pc = "done" /\ result.kind = "ok") =>
        \A p \in {TableParts} : \A t \in {content.tables[1]} :
            Len(p.columns) >= 1 =>
                /\ C2_Columns(t, p)
                /\ \A i \in 1..Len(p.headerNames) :
                       t.attributes[p.headerNames[i]] = RealOf(p.headerValues[i])

\* C2, amended: a table parsed with n >= 1 columns has its values dealt to
\* the columns in turn, and its header attributes map every header name to
\* the header real at the place of the last occurrence of the name (the i-th
\* name to the i-th real when the names differ).
C2_HeaderLastWins ==
    (pc = "done" /\ result.kind = "ok") =>
        \A p \in {TableParts} : \A t \in {content.tables[1]} :
            Len(p.columns) >= 1 =>
                /\ Len(content.tables) = 1
                /\ C2_Columns(t, p)
                /\ DOMAIN t.attributes =
                       {p.headerNames[i] : i \in 1..Len(p.headerNames)}
                /\ \A i \in 1..Len(p.headerNames) :
                       (\A j \in (i + 1)..Len(p.headerNames) :
                            p.headerNames[j] # p.headerNames[i])
                           => t.attributes[p.headerNames[i]] = RealOf(p.headerValues[i])

\* A table of two columns and two rows, with two header attributes.
C2_Witness ==
    /\ pc = "done" /\ result.kind = "ok"
    /\ Len(TableParts.columns) = 2
    /\ Len(TableParts.data) = 4
    /\ Len(TableParts.headerNames) = 2

\* The text p is a table body with a header that parses, n >= 1 columns and
\* m values, m no multiple of n.
C6_ShortLastRow(p) ==
    /\ Len(p.headerNames) = Len(p.headerValues)
    /\ \A i \in 1..Len(p.headerValues) : IsReal(p.headerValues[i])
    /\ Len(p.columns) >= 1
    /\ \A i \in 1..Len(p.data) : IsReal(p.data[i])
    /\ Len(p.data) % Len(p.columns) # 0

\* C6: with n >= 1 columns and a number of values that is no multiple of n,
\* process_table fails with "expected a real number" and appends no table.
C6_ShortRowFails ==
    pc = "done" =>
        \A p \in {TableParts} :
            C6_ShortLastRow(p) =>
                /\ result.kind = "err"
                /\ result.message = "expected a real number"
                /\ content.tables = <<>>

\* Two columns and three values: the second row is short.
C6_Witness ==
    /\ pc = "done"
    /\ C6_ShortLastRow(TableParts)
    /\ Len(TableParts.columns) = 2
    /\ Len(TableParts.data) = 3

(***************************************************************************)
(* Properties of process_graph, under SpecGraph.                           *)
(***************************************************************************)
\* The number a word of digits writes.
RECURSIVE NumberOf(_)
NumberOf(w) ==
    IF Len(w) = 0 THEN 0
    ELSE 10 * NumberOf(SubSeq(w, 1, Len(w) - 1)) + DigitVal[w[Len(w)]]

\* The second field of a word with an underscore: what stands between its
\* first underscore and its next one, or its end.
FieldOf(w) ==
    LET a == CHOOSE i \in 1..Len(w) : w[i] = "_" /\ \A j \in 1..(i - 1) : w[j] # "_"
        b == CHOOSE i \in (a + 1)..(Len(w) + 1) :
                 /\ \A j \in (a + 1)..(i - 1) : w[j] # "_"
                 /\ (i = Len(w) + 1 \/ w[i] = "_") IN
    SubSeq(w, a + 1, b - 1)

\* The id a word x_i writes.
IdOf(w) == NumberOf(FieldOf(w))

\* The number of words of the statement that starts with the word w.
StatementLen(w) ==
    CASE w = TASK -> 4
      [] w = ARC -> 8
      [] w = HARD_DEADLINE -> 6
      [] OTHER -> 2

\* The places in the words w, from place i on, where a statement starts.
RECURSIVE StatementStarts(_, _)
StatementStarts(w, i) ==
    IF i > Len(w) THEN {} ELSE {i} \cup StatementStarts(w, i + StatementLen(w[i]))

\* The elements of a set of places, in ascending order.
Ascending(S) ==
    [n \in 1..Cardinality(S) |-> CHOOSE i \in S : Cardinality({j \in S : j < i}) = n - 1]

\* The statements of the words w that start with the keyword, by their
\* places in source order.
StatementsOf(w, keyword) ==
    Ascending({i \in StatementStarts(w, 1) : w[i] = keyword})

\* C3: when process_graph succeeds, exactly one graph is appended, and its
\* tasks, arcs and deadlines are the TASK, ARC and HARD_DEADLINE statements of
\* the body, each list in source order and with its repetitions; TASK x_i
\* TYPE k gives Task(i, k), ARC x_i FROM y_a TO z_b TYPE k gives
\* Arc(i, a, b, k), HARD_DEADLINE x_i ON y_t AT v gives Deadline(i, t, v);
\* every other statement is an attribute of the graph, and no task, arc or
\* deadline.
C3_GraphOfStatements ==
    (pc = "done" /\ result.kind = "ok") =>
        \A w \in {WithoutBrace(Words(input))} :
            LET ts == StatementsOf(w, TASK)
                as == StatementsOf(w, ARC)
                ds == StatementsOf(w, HARD_DEADLINE)
                others == {i \in StatementStarts(w, 1) :
                               w[i] \notin {TASK, ARC, HARD_DEADLINE}} IN
            /\ Len(content.graphs) = 1
            /\ content.tables = <<>>
            /\ content.graphs[1].tasks =
                   [n \in 1..Len(ts) |->
                       [id |-> IdOf(w[ts[n] + 1]), kind |-> NumberOf(w[ts[n] + 3])]]
            /\ content.graphs[1].arcs =
                   [n \in 1..Len(as) |->
                       [id |-> IdOf(w[as[n] + 1]), from |-> IdOf(w[as[n] + 3]),
                        to |-> IdOf(w[as[n] + 5]), kind |-> NumberOf(w[as[n] + 7])]]
            /\ content.graphs[1].deadlines =
                   [n \in 1..Len(ds) |->
                       [id |-> IdOf(w[ds[n] + 1]), on |-> IdOf(w[ds[n] + 3]),
                        at |-> NumberOf(w[ds[n] + 5])]]
            /\ DOMAIN content.graphs[1].attributes = {w[i] : i \in others}
            /\ \A i \in others :
                   (\A j \in others : j > i => w[j] # w[i])
                       => content.graphs[1].attributes[w[i]] = NumberOf(w[i + 1])

\* A graph of two different tasks and an arc.
C3_Witness ==
    /\ pc = "done" /\ result.kind = "ok"
    /\ Len(content.graphs) = 1
    /\ Len(content.graphs[1].tasks) = 2
    /\ content.graphs[1].tasks[1] # content.graphs[1].tasks[2]
    /\ Len(content.graphs[1].arcs) = 1

(***************************************************************************)
(* Properties of get_id, under SpecId.                                     *)
(***************************************************************************)
\* The identifier at the head of the input: a letter, then letters, digits
\* and underscores; empty when the input starts with no letter.
IdToken ==
    LET ok(k) == /\ k >= 1 => input[1] \in Upper \cup Lower
                 /\ \A i \in 2..k : input[i] \in Upper \cup Lower \cup Digit \cup {"_"}
        n == CHOOSE k \in 0..Len(input) : ok(k) /\ (k = Len(input) \/ ~ok(k + 1)) IN
    SubSeq(input, 1, n)

\* No id is written by the token t: no identifier, or no underscore in it, or
\* a second field that is empty or not all digits.
NoIdIn(t) ==
    \/ t = <<>>
    \/ \A i \in 1..Len(t) : t[i] # "_"
    \/ FieldOf(t) = <<>>
    \/ \E i \in 1..Len(FieldOf(t)) : FieldOf(t)[i] \notin Digit

\* The identifier and the whitespace after it have been consumed.
IdConsumed(t) == pos = AfterVoid(Len(t))

\* C8, as claimed: get_id returns the second field of the identifier at the
\* cursor as a number, and fails with "expected an id" exactly when no
\* identifier can be read, the identifier has no underscore, or its second
\* field is empty or not all digits; either way the identifier and the
\* whitespace after it are consumed.
C8_FailsExactlyWhenNoId ==
    pc = "done" =>
        \A t \in {IdToken} :
            /\ IdConsumed(t)
            /\ IF NoIdIn(t)
               THEN result.kind = "err" /\ result.message = "expected an id"
               ELSE result.kind = "ok"

\* C8, amended: get_id also fails with "expected an id" when the second
\* field is all digits and writes a number greater than the largest uint;
\* in every other case it returns the number the second field writes.
C8_FailsAlsoOnOverflow ==
    pc = "done" =>
        \A t \in {IdToken} :
            /\ IdConsumed(t)
            /\ IF NoIdIn(t) \/ Overflows(FieldOf(t))
               THEN result.kind = "err" /\ result.message = "expected an id"
                    /\ result.line = line
               ELSE result = OkResult(IdOf(t))

\* An id is returned from an identifier of three fields, the whitespace
\* after it consumed.
C8_Witness ==
    /\ pc = "done" /\ result.kind = "ok"
    /\ Cardinality({i \in 1..Len(IdToken) : IdToken[i] = "_"}) = 2
    /\ FieldOf(IdToken) # <<>>
    /\ pos > Len(IdToken)

(***************************************************************************)
(* Two parses compared: a text, then the same text with its whitespace     *)
(* changed.                                                                *)
(***************************************************************************)
MaxWsPieces == 2

WsTexts == {Flatten(ps) : ps \in SeqsUpTo(Pieces, MaxWsPieces)}

\* The text with a newline inserted after its first p characters.
WithNewline(text, p) ==
    SubSeq(text, 1, p) \o <<"\n">> \o SubSeq(text, p + 1, Len(text))

\* The places of the text next to whitespace, or at its start or end: none
\* of them is inside an identifier, a number or a separator.
Between(text) ==
    {p \in 0..Len(text) :
        \/ p = 0 \/ p = Len(text)
        \/ text[p] \in Void \/ text[p + 1] \in Void}

\* The text with its run of whitespace from i to j replaced by one space.
WithOneSpace(text, i, j) ==
    SubSeq(text, 1, i - 1) \o <<" ">> \o SubSeq(text, j + 1, Len(text))

\* The maximal runs of whitespace of the text that stand between two
\* characters that are no whitespace.
Runs(text) ==
    {r \in (2..Len(text)) \X (1..(Len(text) - 1)) :
        /\ r[1] <= r[2]
        /\ \A k \in r[1]..r[2] : text[k] \in Void
        /\ text[r[1] - 1] \notin Void
        /\ text[r[2] + 1] \notin Void}

Variants(text) ==
    {WithNewline(text, p) : p \in Between(text)}
        \cup {WithOneSpace(text, r[1], r[2]) : r \in Runs(text)}

\* Parser::new on the other text, and process called on it; the outcome of
\* the first parse is kept for the comparison.
Restart ==
    /\ pc = "done" /\ first = NoResult
    /\ first' = [result |-> result, content |-> content]
    /\ input' = alt
    /\ pos' = 0
    /\ line' = 1
    /\ content' = NewContent
    /\ pc' = "process"
    /\ result' = NoResult
    /\ UNCHANGED <<entry, name, id, graph, table, alt>>

InitWs ==
    /\ \E text \in WsTexts :
           /\ Start(text, "process")
           /\ alt \in Variants(text)
    /\ first = NoResult

NextWs == Next \/ Restart

SpecWs == InitWs /\ [][NextWs]_vars

\* C5: a text and the same text with a run of whitespace between tokens
\* replaced by one space, or with a newline inserted at a place that is not
\* inside a token (the start of the text included), both parse or both fail,
\* and when they parse the Content is the same.
C5_WhitespaceInsensitive ==
    (pc = "done" /\ first # NoResult) =>
        /\ result.kind = first.result.kind
        /\ result.kind = "ok" => content = first.content

====
